---------------------------- MODULE Spec2Model ----------------------------
(***************************************************************************)
(* Model of waiwera-dkr.py: the wrapper that probes the Docker runtime,    *)
(* repairs Docker Toolbox, launches the Waiwera container and reacts to    *)
(* SIGINT.  The wrapper is one Python thread; the signal handler runs in   *)
(* that thread between two of its steps, and the docker client/engine run  *)
(* concurrently as external processes.                                     *)
(***************************************************************************)
EXTENDS Integers, Sequences, FiniteSets, TLC

\* ------------------------------------------------------------------ bounds

\* number of SIGINTs the environment delivers during one wrapper process
MaxInterrupts == 2

\* ------------------------------------------------------- program constants

CID_LEN == 12

\* exit status of a Python process that ends on an uncaught exception or on
\* sys.exit(1) / exit(1)
FailStatus == 1

\* exit status of a script that runs to its last statement
OkStatus == 0

\* ------------------------------------------------------------ input sets

Platforms == {"win32", "linux"}

Engines == {"native", "toolbox"}

\* exit codes of the containerized command
ExitCodes == {0, 1, 3}

\* identifiers the engine may assign (longer than CID_LEN; they differ in
\* the first CID_LEN characters and agree in what follows)
IdA == <<"a","b","c","d","e","f","1","2","3","4","5","6","7","8">>
IdB == <<"0","b","c","d","e","f","1","2","3","4","5","6","7","8">>
ContainerIds == {IdA, IdB}

\* content kinds of `docker info --format {{json .}}` on stdout:
\*   nonjson      not parseable by json.loads
\*   json_native  a document whose OperatingSystem lacks 'boot2docker'
\*   json_b2d     a document whose OperatingSystem contains 'Boot2Docker'
\*   json_err     a document with a ServerErrors field
OutKinds == {"nonjson", "json_native", "json_b2d", "json_err"}

\* further documents, for the probe taken alone:
\*   json_B2D     OperatingSystem is 'BOOT2DOCKER' in capitals
\*   json_b2d_err a Boot2Docker document that also has ServerErrors
\*   json_noos    a document with neither OperatingSystem nor ServerErrors
ProbeKinds == OutKinds \cup {"json_B2D", "json_b2d_err", "json_noos"}

\* the file does not exist
NoFile == <<"<absent>">>

\* abstract shared-folder tables: none, one that does not cover the working
\* directory, one that covers it
FolderMaps == {<<>>, <<"other">>, <<"cwd">>}

VARIABLES
    platform,     \* sys.platform
    engine,       \* what is installed: native engine or Toolbox
    versionOk,    \* whether `docker --version` can be run
    runtimeUp,    \* whether the runtime would answer `docker info` as running
    noupdate,     \* args.noupdate
    pc,           \* position of the main thread
    exists,       \* DockerEnv.exists   ("None" | "True" | "False")
    running,      \* DockerEnv.running  ("None" | "True" | "False")
    info,         \* DockerEnv.info     ("None" | "stdout_stderr" | an OutKind)
    is_toolbox,   \* DockerEnv.is_toolbox ("None" | "True" | "False")
    folder_map,   \* DockerEnv.folder_map
    current_path, \* run_waiwera's current_path ("unset"|"host"|"share"|"None")
    idcheck,      \* whether .idcheck exists
    cidFile,      \* content of .cid, or NoFile
    container,    \* "none"|"spawned"|"running"|"exited"|"failed"|"killed"
    conId,        \* identifier the engine assigned
    conExit,      \* exit status of the docker run client
    ret,          \* run_waiwera's ret
    hpc,          \* position inside signal_handler ("idle" when not in it)
    hcid,         \* signal_handler's local cid
    kills,        \* targets of the `docker kill` commands issued, in order
    pulls,        \* number of `docker pull` commands issued
    exited,       \* the wrapper process has ended
    exitStatus,   \* its exit status
    exitCause,    \* why it ended
    nInterrupts,  \* SIGINTs delivered so far
    probeLog,     \* what each status probe reported as running, in order
    statusQueries,\* number of `docker info` commands issued
    repairEntered,\* the Toolbox repair sequence was entered
    vmRepaired,   \* repair_win_toolbox ran to its end
    envUpdates,   \* number of update_env calls made
    vmRepairs,    \* number of repair_win_toolbox calls made
    fnOp,         \* the function applied on its own ("none" in a wrapper run)
    fnIn,         \* its arguments
    fnOut         \* its result

vars == <<platform, engine, versionOk, runtimeUp, noupdate, pc, exists,
          running, info, is_toolbox, folder_map, current_path, idcheck,
          cidFile, container, conId, conExit, ret, hpc, hcid, kills, pulls,
          exited, exitStatus, exitCause, nInterrupts, probeLog,
          statusQueries, repairEntered, vmRepaired, envUpdates, vmRepairs,
          fnOp, fnIn, fnOut>>

\* a function of the script applied on its own: no step of a wrapper run
\* touches these
fnVars == <<fnOp, fnIn, fnOut>>

\* what no step of a wrapper run changes
envVars == <<platform, engine, versionOk, noupdate, fnVars>>
dkrVars == <<exists, running, info, is_toolbox, folder_map>>
fileVars == <<idcheck, cidFile>>
conVars == <<container, conId, conExit>>
sigVars == <<hpc, hcid, kills, nInterrupts>>
exitVars == <<exited, exitStatus, exitCause>>
histVars == <<probeLog, statusQueries, repairEntered, vmRepaired,
              envUpdates, vmRepairs>>

\* ------------------------------------------------------------- helpers

Min(a, b) == IF a < b THEN a ELSE b

Bool(b) == IF b THEN "True" ELSE "False"

IsSpace(c) == c \in {" ", "\n", "\t", "\r"}

\* f.readline(): the text up to and including the first newline
RECURSIVE ReadLine(_)
ReadLine(s) ==
    IF s = <<>> THEN <<>>
    ELSE IF Head(s) = "\n" THEN <<"\n">>
    ELSE <<Head(s)>> \o ReadLine(Tail(s))

RECURSIVE LStrip(_)
LStrip(s) ==
    IF s # <<>> /\ IsSpace(Head(s)) THEN LStrip(Tail(s)) ELSE s

RECURSIVE RStrip(_)
RStrip(s) ==
    IF s # <<>> /\ IsSpace(s[Len(s)]) THEN RStrip(SubSeq(s, 1, Len(s) - 1))
    ELSE s

Strip(s) == RStrip(LStrip(s))

\* the letters str.lower() changes, and what it changes them to
UpperLetters ==
    <<"A","B","C","D","E","F","G","H","I","J","K","L","M",
      "N","O","P","Q","R","S","T","U","V","W","X","Y","Z">>
LowerLetters ==
    <<"a","b","c","d","e","f","g","h","i","j","k","l","m",
      "n","o","p","q","r","s","t","u","v","w","x","y","z">>

LowerChar(c) ==
    IF \E i \in 1..Len(UpperLetters) : UpperLetters[i] = c
    THEN LowerLetters[CHOOSE i \in 1..Len(UpperLetters) : UpperLetters[i] = c]
    ELSE c

\* s.lower()
Lower(s) == [i \in 1..Len(s) |-> LowerChar(s[i])]

\* s.startswith(t)
StartsWith(s, t) == Len(t) <= Len(s) /\ SubSeq(s, 1, Len(t)) = t

\* t in s
Contains(s, t) ==
    \E i \in 0..(Len(s) - Len(t)) : SubSeq(s, i + 1, i + Len(t)) = t

\* s[:n]
Prefix(s, n) == SubSeq(s, 1, Min(n, Len(s)))

\* f.readline().strip()[:CID_LEN]
ReadCid(content) == Prefix(Strip(ReadLine(content)), CID_LEN)

\* ------------------------------------------------------------- initial

Init ==
    /\ platform \in Platforms
    /\ engine \in Engines
    /\ versionOk \in BOOLEAN
    /\ runtimeUp \in BOOLEAN
    /\ (~versionOk => ~runtimeUp)
    /\ noupdate \in BOOLEAN
    /\ pc = "check_exists"
    /\ exists = "None"
    /\ running = "None"
    /\ info = "None"
    /\ is_toolbox = "None"
    /\ folder_map = <<>>
    /\ current_path = "unset"
    /\ idcheck = FALSE
    /\ cidFile = NoFile
    /\ container = "none"
    /\ conId = <<>>
    /\ conExit = 0
    /\ ret = 0
    /\ hpc = "idle"
    /\ hcid = <<>>
    /\ kills = <<>>
    /\ pulls = 0
    /\ exited = FALSE
    /\ exitStatus = 0
    /\ exitCause = "none"
    /\ nInterrupts = 0
    /\ probeLog = <<>>
    /\ statusQueries = 0
    /\ repairEntered = FALSE
    /\ vmRepaired = FALSE
    /\ envUpdates = 0
    /\ vmRepairs = 0
    /\ fnOp = "none"
    /\ fnIn = <<>>
    /\ fnOut = <<>>

\* the main thread may take a step: the process lives and no handler runs
MainAt(p) == ~exited /\ hpc = "idle" /\ pc = p

\* the process ends with `status`: sys.exit, exit, an uncaught exception or
\* the end of the script
ExitWith(status, cause) ==
    /\ exited' = TRUE
    /\ exitStatus' = status
    /\ exitCause' = cause
    /\ pc' = "exited"
    /\ hpc' = "idle"

\* ------------------------------------------------- DockerEnv.check_exists

\* call(['docker', '--version']): the success flag becomes self.exists
CheckExists ==
    /\ MainAt("check_exists")
    /\ exists' = Bool(versionOk)
    /\ pc' = "init_probe"
    /\ UNCHANGED <<envVars, runtimeUp, running, info, is_toolbox, folder_map,
                   current_path, fileVars, conVars, ret, sigVars, pulls,
                   exitVars, histVars>>

\* ------------------------------------------------ DockerEnv.check_running

\* what `docker info` may answer: (success flag, stdout kind).  A docker
\* command that cannot be started gives (False, ''); a running runtime
\* answers with its document; one that is not running answers anything but
\* a successful document without ServerErrors.
StatusResults ==
    IF ~versionOk THEN {<<FALSE, "nonjson">>}
    ELSE IF runtimeUp
         THEN {<<TRUE, IF engine = "native" THEN "json_native" ELSE "json_b2d">>}
         ELSE ({FALSE} \X OutKinds) \cup {<<TRUE, "nonjson">>, <<TRUE, "json_err">>}

\* json.loads(out) succeeds
Parses(kind) == kind # "nonjson"

\* 'ServerErrors' in self.info
HasServerErrors(i) == i \in {"json_err", "json_b2d_err"}

\* 'OperatingSystem' in self.info (a look-up of a missing key raises KeyError)
HasOperatingSystem(i) ==
    i \in {"json_native", "json_b2d", "json_err", "json_B2D", "json_b2d_err"}

\* self.info['OperatingSystem'] of the documents
OperatingSystem(i) ==
    CASE i = "json_native" ->
           <<"D","o","c","k","e","r"," ","D","e","s","k","t","o","p">>
      [] i = "json_err" ->
           <<"D","o","c","k","e","r"," ","D","e","s","k","t","o","p">>
      [] i = "json_b2d" ->
           <<"B","o","o","t","2","D","o","c","k","e","r"," ","1","9">>
      [] i = "json_b2d_err" ->
           <<"B","o","o","t","2","D","o","c","k","e","r"," ","1","9">>
      [] i = "json_B2D" ->
           <<"B","O","O","T","2","D","O","C","K","E","R">>
      [] OTHER -> <<>>

\* the text looked for in the operating system's name
Boot2DockerSig == <<"b","o","o","t","2","d","o","c","k","e","r">>

IsBoot2DockerMutant(i) == Contains(OperatingSystem(i), Boot2DockerSig)

\* 'boot2docker' in self.info['OperatingSystem'].lower()
IsBoot2Docker(i) == Contains(Lower(OperatingSystem(i)), Boot2DockerSig)

\* the fields check_running leaves behind for an answer (ok, kind), given
\* the is_toolbox it found; raised: it ended in a KeyError
ProbeResult(ok, kind, tb) ==
    LET inf == IF Parses(kind) THEN kind ELSE "stdout_stderr"
        tb1 == IF Parses(kind) THEN tb ELSE "True"
    IN  IF ok
        THEN IF HasServerErrors(inf)
             THEN [running |-> "False", info |-> inf, is_toolbox |-> tb1,
                   raised |-> FALSE]
             ELSE IF ~HasOperatingSystem(inf)
                  THEN [running |-> "True", info |-> inf, is_toolbox |-> tb1,
                        raised |-> TRUE]
                  ELSE [running |-> "True", info |-> inf,
                        is_toolbox |-> Bool(IsBoot2Docker(inf)),
                        raised |-> FALSE]
        ELSE [running |-> "False", info |-> inf, is_toolbox |-> tb1,
              raised |-> FALSE]

\* whether check_running gets as far as the status query: it returns early
\* only when self.exists was None and the version query it then makes fails
IssuesStatusQuery == ~(exists = "None" /\ ~versionOk)

\* the fields self.check_running() leaves behind for the answer r: those of
\* ProbeResult, or the ones it found when it returns early
Probed(r) ==
    IF IssuesStatusQuery
    THEN ProbeResult(r[1], r[2], is_toolbox)
    ELSE [running |-> running, info |-> info, is_toolbox |-> is_toolbox,
          raised |-> FALSE]

\* self.check_running() applied to the answer r
CheckRunning(r) ==
    /\ exists' = (IF exists = "None" THEN Bool(versionOk) ELSE exists)
    /\ running' = Probed(r).running
    /\ info' = Probed(r).info
    /\ is_toolbox' = Probed(r).is_toolbox
    /\ IF IssuesStatusQuery
       THEN /\ statusQueries' = statusQueries + 1
            /\ probeLog' = Append(probeLog, IF Probed(r).raised THEN "raised"
                                            ELSE Probed(r).running)
       ELSE UNCHANGED <<statusQueries, probeLog>>

\* ---------------------------------------------------- DockerEnv.__init__

\* lines 86-100: the first probe and the branch on its result
AfterInitProbe(p) ==
    IF p.raised THEN
        ExitWith(FailStatus, "probe_error") /\ UNCHANGED repairEntered
    ELSE IF p.running = "True" THEN
        /\ pc' = "init_folder_map"
        /\ UNCHANGED <<exitVars, hpc, repairEntered>>
    ELSE IF p.is_toolbox = "True" THEN
        /\ pc' = "init_update_env"
        /\ repairEntered' = TRUE
        /\ UNCHANGED <<exitVars, hpc>>
    ELSE
        ExitWith(FailStatus, "not_running") /\ UNCHANGED repairEntered

InitProbe ==
    /\ MainAt("init_probe")
    /\ \E r \in StatusResults : CheckRunning(r) /\ AfterInitProbe(Probed(r))
    /\ UNCHANGED <<envVars, runtimeUp, folder_map, current_path, fileVars,
                   conVars, ret, hcid, kills, nInterrupts, pulls, vmRepaired,
                   envUpdates, vmRepairs>>

\* DockerEnv.update_env: `docker-machine env --shell=cmd`; when it fails
\* nothing is set; when it succeeds the SET lines go into os.environ (which
\* may make a Toolbox runtime answer), unless a line does not split into a
\* name and a value (ValueError)
UpdateEnv(next) ==
    \/ /\ pc' = next
       /\ UNCHANGED <<runtimeUp, exitVars, hpc>>
    \/ /\ pc' = next
       /\ engine = "toolbox" /\ versionOk
       /\ runtimeUp' = TRUE
       /\ UNCHANGED <<exitVars, hpc>>
    \/ /\ ExitWith(FailStatus, "env_error")
       /\ UNCHANGED runtimeUp

\* line 91
InitUpdateEnv ==
    /\ MainAt("init_update_env")
    /\ UpdateEnv("init_reprobe")
    /\ envUpdates' = envUpdates + 1
    /\ UNCHANGED <<envVars, dkrVars, current_path, fileVars, conVars, ret,
                   hcid, kills, nInterrupts, pulls, probeLog, statusQueries,
                   repairEntered, vmRepaired, vmRepairs>>

\* lines 92-98: the re-probe and the branch on its result
AfterInitReprobe(p) ==
    IF p.raised THEN
        ExitWith(FailStatus, "probe_error") /\ UNCHANGED vmRepairs
    ELSE IF p.running = "True" THEN
        /\ pc' = "init_folder_map"
        /\ UNCHANGED <<exitVars, hpc, vmRepairs>>
    ELSE IF platform = "win32" THEN
        /\ pc' = "repair_find_vbox"
        /\ vmRepairs' = vmRepairs + 1
        /\ UNCHANGED <<exitVars, hpc>>
    ELSE
        ExitWith(FailStatus, "repair_failed") /\ UNCHANGED vmRepairs

InitReprobe ==
    /\ MainAt("init_reprobe")
    /\ \E r \in StatusResults : CheckRunning(r) /\ AfterInitReprobe(Probed(r))
    /\ UNCHANGED <<envVars, runtimeUp, folder_map, current_path, fileVars,
                   conVars, ret, hcid, kills, nInterrupts, pulls,
                   repairEntered, vmRepaired, envUpdates>>

\* ------------------------------------------- DockerEnv.repair_win_toolbox

\* a repair step that only moves on or ends the process
RepairStep(from, to, cause) ==
    /\ MainAt(from)
    /\ \/ pc' = to /\ UNCHANGED <<exitVars, hpc>>
       \/ ExitWith(FailStatus, cause)
    /\ UNCHANGED <<envVars, runtimeUp, dkrVars, current_path, fileVars,
                   conVars, ret, hcid, kills, nInterrupts, pulls, histVars>>

\* line 179, _find_vboxmanage: check_tool returns True or raises
RepairFindVbox == RepairStep("repair_find_vbox", "repair_vms", "repair_error")

\* lines 182-205: toolbox_vm, `VBoxManage list vms` (check_output raises
\* when it fails), and the VM re-created when it is not listed
RepairVms == RepairStep("repair_vms", "repair_status", "repair_error")

\* lines 209-219: `docker-machine status` (check_output), and
\* `docker-machine start` when it is not Running: exit(1) when that fails
RepairStart ==
    /\ MainAt("repair_status")
    /\ \/ pc' = "repair_final_status" /\ UNCHANGED <<exitVars, hpc>>
       \/ pc' = "repair_regen" /\ UNCHANGED <<exitVars, hpc>>
       \/ ExitWith(FailStatus, "repair_error")
    /\ UNCHANGED <<envVars, runtimeUp, dkrVars, current_path, fileVars,
                   conVars, ret, hcid, kills, nInterrupts, pulls, histVars>>

\* lines 221-229: `docker-machine regenerate-certs`, exit(1) when it fails,
\* then the settle delay
RepairRegen ==
    RepairStep("repair_regen", "repair_final_status", "repair_error")

RepairFinalStatusMutant ==
    RepairStep("repair_final_status", "repair_status", "repair_error")

\* lines 231-233: `docker-machine status` and `docker-machine ip`
RepairFinalStatus ==
    RepairStep("repair_final_status", "repair_update_env", "repair_error")

\* line 236: self.update_env, the last statement of repair_win_toolbox
RepairUpdateEnv ==
    /\ MainAt("repair_update_env")
    /\ UpdateEnv("init_final_check")
    /\ vmRepaired' = ~exited'
    /\ envUpdates' = envUpdates + 1
    /\ UNCHANGED <<envVars, dkrVars, current_path, fileVars, conVars, ret,
                   hcid, kills, nInterrupts, pulls, probeLog, statusQueries,
                   repairEntered, vmRepairs>>

InitFinalCheckMutant ==
    /\ MainAt("init_final_check")
    /\ pc' = "init_folder_map"
    /\ UNCHANGED <<exitVars, hpc>>
    /\ UNCHANGED <<envVars, runtimeUp, dkrVars, current_path, fileVars,
                   conVars, ret, hcid, kills, nInterrupts, pulls, histVars>>

\* lines 97-98: after repair_win_toolbox returned, self.running (set by the
\* probe of line 92, no probe was made since) decides
InitFinalCheck ==
    /\ MainAt("init_final_check")
    /\ IF running # "True"
       THEN ExitWith(FailStatus, "repair_failed")
       ELSE pc' = "init_folder_map" /\ UNCHANGED <<exitVars, hpc>>
    /\ UNCHANGED <<envVars, runtimeUp, dkrVars, current_path, fileVars,
                   conVars, ret, hcid, kills, nInterrupts, pulls, histVars>>

\* lines 101-102: the shared-folder table is read when in Toolbox mode and
\* none is held; get_vbox_share raises when vboxmanage cannot be run or a
\* line of its output cannot be parsed
InitFolderMap ==
    /\ MainAt("init_folder_map")
    /\ IF is_toolbox = "True" /\ Len(folder_map) = 0
       THEN \/ /\ \E fm \in FolderMaps : folder_map' = fm
               /\ pc' = "volume_path"
               /\ UNCHANGED <<exitVars, hpc>>
            \/ /\ ExitWith(FailStatus, "share_error")
               /\ UNCHANGED folder_map
       ELSE /\ pc' = "volume_path"
            /\ UNCHANGED <<folder_map, exitVars, hpc>>
    /\ UNCHANGED <<envVars, runtimeUp, exists, running, info, is_toolbox,
                   current_path, fileVars, conVars, ret, hcid, kills,
                   nInterrupts, pulls, histVars>>

\* ----------------------------------------------- DockerEnv.volume_path

\* convert_path_vbox_share finds a host path that prefixes the working
\* directory
ShareFound == \E i \in 1..Len(folder_map) : folder_map[i] = "cwd"

\* line 382, volume_path(): outside Toolbox mode the host path; in Toolbox
\* mode the share path when one is found, else None (on win32 after the
\* prompt was answered with no; answered with yes, the call of
\* toolbox_conf_share_win, a name the script does not define, raises)
VolumePath ==
    /\ MainAt("volume_path")
    /\ IF is_toolbox # "True"
       THEN /\ current_path' = "host"
            /\ pc' = "pull"
            /\ UNCHANGED <<exitVars, hpc>>
       ELSE IF ShareFound
       THEN /\ current_path' = "share"
            /\ pc' = "pull"
            /\ UNCHANGED <<exitVars, hpc>>
       ELSE IF platform = "win32"
       THEN \E yes \in BOOLEAN :
              IF yes
              THEN ExitWith(FailStatus, "path_error")
                   /\ UNCHANGED current_path
              ELSE /\ current_path' = "None"
                   /\ pc' = "pull"
                   /\ UNCHANGED <<exitVars, hpc>>
       ELSE /\ current_path' = "None"
            /\ pc' = "pull"
            /\ UNCHANGED <<exitVars, hpc>>
    /\ UNCHANGED <<envVars, runtimeUp, dkrVars, fileVars, conVars, ret, hcid,
                   kills, nInterrupts, pulls, histVars>>

\* ------------------------------------------------ DockerEnv.run_waiwera

\* lines 404-407: unless noupdate, `docker pull` is spawned (Popen raises
\* when the command cannot be started)
Pull ==
    /\ MainAt("pull")
    /\ IF noupdate
       THEN pc' = "mk_idcheck" /\ UNCHANGED <<pulls, exitVars, hpc>>
       ELSE \/ /\ pulls' = pulls + 1
               /\ pc' = "pull_wait"
               /\ UNCHANGED <<exitVars, hpc>>
            \/ /\ ExitWith(FailStatus, "pull_spawn_error")
               /\ UNCHANGED pulls
    /\ UNCHANGED <<envVars, runtimeUp, dkrVars, current_path, fileVars,
                   conVars, ret, hcid, kills, nInterrupts, histVars>>

PullWaitMutant ==
    /\ MainAt("pull_wait")
    /\ \E c \in ExitCodes :
         /\ ret' = c
         /\ IF c = 0
            THEN pc' = "mk_idcheck" /\ UNCHANGED <<exitVars, hpc>>
            ELSE ExitWith(FailStatus, "pull_failed")
    /\ UNCHANGED <<envVars, runtimeUp, dkrVars, current_path, fileVars,
                   conVars, hcid, kills, nInterrupts, pulls, histVars>>

\* line 408: ret = p.wait() of the pull; its value is not looked at
PullWait ==
    /\ MainAt("pull_wait")
    /\ pc' = "mk_idcheck"
    /\ \E c \in ExitCodes : ret' = c
    /\ UNCHANGED <<envVars, runtimeUp, dkrVars, current_path, fileVars,
                   conVars, sigVars, pulls, exitVars, histVars>>

\* lines 410-411: open(".idcheck", "wb"); close
MakeIdcheck ==
    /\ MainAt("mk_idcheck")
    /\ idcheck' = TRUE
    /\ pc' = "spawn_run"
    /\ UNCHANGED <<envVars, runtimeUp, dkrVars, current_path, cidFile,
                   conVars, ret, sigVars, pulls, exitVars, histVars>>

\* lines 415-424: subprocess.Popen(['docker', 'run', '--cidfile', '.cid',
\* ...]) starts the docker client, or raises
SpawnRun ==
    /\ MainAt("spawn_run")
    /\ \/ /\ container' = "spawned"
          /\ pc' = "wait_run"
          /\ UNCHANGED <<exitVars, hpc>>
       \/ /\ ExitWith(FailStatus, "spawn_error")
          /\ UNCHANGED container
    /\ UNCHANGED <<envVars, runtimeUp, dkrVars, current_path, fileVars,
                   conId, conExit, ret, hcid, kills, nInterrupts, pulls,
                   histVars>>

\* line 425: ret = p.wait() returns once the docker client has ended
WaitRun ==
    /\ MainAt("wait_run")
    /\ container \in {"exited", "failed", "killed"}
    /\ ret' = conExit
    /\ pc' = "read_cid"
    /\ UNCHANGED <<envVars, runtimeUp, dkrVars, current_path, fileVars,
                   conVars, sigVars, pulls, exitVars, histVars>>

\* lines 426-431: open('.cid') raises when the file is not there; else the
\* identifier is read and a message printed
ReadCidFile ==
    /\ MainAt("read_cid")
    /\ IF cidFile = NoFile
       THEN ExitWith(FailStatus, "cid_unreadable")
       ELSE pc' = "rm_idcheck" /\ UNCHANGED <<exitVars, hpc>>
    /\ UNCHANGED <<envVars, runtimeUp, dkrVars, current_path, fileVars,
                   conVars, ret, hcid, kills, nInterrupts, pulls, histVars>>

\* line 432: os.remove(".idcheck")
RemoveIdcheck ==
    /\ MainAt("rm_idcheck")
    /\ idcheck' = FALSE
    /\ pc' = "rm_cid"
    /\ UNCHANGED <<envVars, runtimeUp, dkrVars, current_path, cidFile,
                   conVars, ret, sigVars, pulls, exitVars, histVars>>

\* line 433: os.remove('.cid'); run_waiwera returns None
RemoveCid ==
    /\ MainAt("rm_cid")
    /\ cidFile' = NoFile
    /\ pc' = "done"
    /\ UNCHANGED <<envVars, runtimeUp, dkrVars, current_path, idcheck,
                   conVars, ret, sigVars, pulls, exitVars, histVars>>

\* line 543 is the last statement: run_waiwera's result is dropped and the
\* interpreter ends with status 0
FinalStatus == OkStatus

\* line 543: the script ends
ScriptEnd ==
    /\ MainAt("done")
    /\ ExitWith(FinalStatus, "normal")
    /\ UNCHANGED <<envVars, runtimeUp, dkrVars, current_path, fileVars,
                   conVars, ret, hcid, kills, nInterrupts, pulls, histVars>>

\* ------------------------------------- the docker client and the engine

\* `docker run --cidfile .cid`: the engine creates the container and the
\* client writes its identifier to .cid, some time after the client started
DockerCreate ==
    /\ container = "spawned"
    /\ \E id \in ContainerIds :
         /\ conId' = id
         /\ cidFile' = id
    /\ container' = "running"
    /\ UNCHANGED <<envVars, runtimeUp, pc, dkrVars, current_path, idcheck,
                   conExit, ret, sigVars, pulls, exitVars, histVars>>

\* the run fails before a container exists (image not found, engine
\* error): the client ends non-zero and .cid is not written
DockerFail ==
    /\ container = "spawned"
    /\ container' = "failed"
    /\ \E c \in ExitCodes \ {0} : conExit' = c
    /\ UNCHANGED <<envVars, runtimeUp, pc, dkrVars, current_path, fileVars,
                   conId, ret, sigVars, pulls, exitVars, histVars>>

\* the containerized command ends with code c, and the client with it
ContainerExit ==
    /\ container = "running"
    /\ container' = "exited"
    /\ \E c \in ExitCodes : conExit' = c
    /\ UNCHANGED <<envVars, runtimeUp, pc, dkrVars, current_path, fileVars,
                   conId, ret, sigVars, pulls, exitVars, histVars>>

\* ----------------------------------------------------- signal_handler

\* line 510 installs the handler when the script is loaded: a SIGINT enters
\* it at any point of the process's life, also while an earlier invocation
\* of it is running (that one is never resumed: every invocation ends the
\* process)
Interrupt ==
    /\ ~exited
    /\ nInterrupts < MaxInterrupts
    /\ nInterrupts' = nInterrupts + 1
    /\ hpc' = "check"
    /\ hcid' = <<>>
    /\ UNCHANGED <<envVars, runtimeUp, pc, dkrVars, current_path, fileVars,
                   conVars, ret, kills, pulls, exitVars, histVars>>

HandlerCheckMutant ==
    /\ ~exited /\ hpc = "check"
    /\ hcid' = IF cidFile # NoFile THEN ReadCid(cidFile) ELSE <<>>
    /\ hpc' = "kill"
    /\ UNCHANGED <<pc, exitVars>>
    /\ UNCHANGED <<envVars, runtimeUp, dkrVars, current_path, fileVars,
                   conVars, ret, kills, nInterrupts, pulls, histVars>>

\* lines 440-442 and 449: with .cid there, the identifier is read from it;
\* without, sys.exit(1)
HandlerCheck ==
    /\ ~exited /\ hpc = "check"
    /\ IF cidFile # NoFile
       THEN /\ hcid' = ReadCid(cidFile)
            /\ hpc' = "kill"
            /\ UNCHANGED <<pc, exitVars>>
       ELSE /\ ExitWith(FailStatus, "interrupt_no_marker")
            /\ UNCHANGED hcid
    /\ UNCHANGED <<envVars, runtimeUp, dkrVars, current_path, fileVars,
                   conVars, ret, kills, nInterrupts, pulls, histVars>>

\* what `docker kill target` does to the container
Killed(target) == container = "running" /\ target = Prefix(conId, CID_LEN)

\* line 446: os.system('docker kill %s' % cid)
HandlerKill ==
    /\ ~exited /\ hpc = "kill"
    /\ kills' = Append(kills, hcid)
    /\ IF Killed(hcid)
       THEN /\ container' = "killed"
            /\ \E c \in ExitCodes \ {0} : conExit' = c
       ELSE UNCHANGED <<container, conExit>>
    /\ hpc' = "remove"
    /\ UNCHANGED <<envVars, runtimeUp, pc, dkrVars, current_path, fileVars,
                   conId, ret, hcid, nInterrupts, pulls, exitVars, histVars>>

\* line 448: os.remove('.cid')
HandlerRemove ==
    /\ ~exited /\ hpc = "remove"
    /\ cidFile' = NoFile
    /\ hpc' = "exit"
    /\ UNCHANGED <<envVars, runtimeUp, pc, dkrVars, current_path, idcheck,
                   conVars, ret, hcid, kills, nInterrupts, pulls, exitVars,
                   histVars>>

\* line 449: sys.exit(1)
HandlerExit ==
    /\ ~exited /\ hpc = "exit"
    /\ ExitWith(FailStatus, "interrupt_killed")
    /\ UNCHANGED <<envVars, runtimeUp, dkrVars, current_path, fileVars,
                   conVars, ret, hcid, kills, nInterrupts, pulls, histVars>>

\* ------------------------------------------------------ specification

Next ==
    \/ CheckExists
    \/ InitProbe
    \/ InitUpdateEnv
    \/ InitReprobe
    \/ RepairFindVbox
    \/ RepairVms
    \/ RepairStart
    \/ RepairRegen
    \/ RepairFinalStatus
    \/ RepairUpdateEnv
    \/ InitFinalCheck
    \/ InitFolderMap
    \/ VolumePath
    \/ Pull
    \/ PullWait
    \/ MakeIdcheck
    \/ SpawnRun
    \/ WaitRun
    \/ ReadCidFile
    \/ RemoveIdcheck
    \/ RemoveCid
    \/ ScriptEnd
    \/ DockerCreate
    \/ DockerFail
    \/ ContainerExit
    \/ Interrupt
    \/ HandlerCheck
    \/ HandlerKill
    \/ HandlerRemove
    \/ HandlerExit

Spec == Init /\ [][Next]_vars

\* the interpreter goes on to the next statement, and the commands it waits
\* for come back
LiveSpec == Spec /\ WF_vars(Next)

\* ------------------------------------------ the functions on their own

\* the wrapper's own state, at rest while one function is applied
lifeVars == <<platform, engine, versionOk, runtimeUp, noupdate, pc, exists,
              running, info, is_toolbox, folder_map, current_path, idcheck,
              cidFile, container, conId, conExit, ret, hpc, hcid, kills,
              pulls, exited, exitStatus, exitCause, nInterrupts, probeLog,
              statusQueries, repairEntered, vmRepaired, envUpdates,
              vmRepairs>>

FnInit ==
    /\ Init
    /\ platform = "linux"
    /\ engine = "native"
    /\ versionOk
    /\ runtimeUp
    /\ ~noupdate

\* ------------------------------------------------------ path functions

\* None, where a path is expected
NonePath == <<"None">>

\* working directories
WinProject == <<"C",":","\\","U","s","e","r","s","\\","a","\\","p","r","o","j","e","c","t">>
WinUsers == <<"C",":","\\","U","s","e","r","s">>
WinLower == <<"c",":","\\","u","s","e","r","s","\\","a">>
WinData == <<"C",":","\\","d","a","t","a","\\","r","u","n">>
WinSibling == <<"C",":","\\","U","s","e","r","s","x","\\","a">>
WinUnc == <<"\\","\\","s","r","v","\\","x","\\","a">>
PxProject == <<"/","U","s","e","r","s","/","a","/","p">>
PxUsers == <<"/","U","s","e","r","s">>
PxSibling == <<"/","U","s","e","r","s","x","/","a">>
PxHome == <<"/","h","o","m","e","/","u">>
SamplePaths ==
    {WinProject, WinUsers, WinLower, WinData, WinSibling, WinUnc, PxProject, PxUsers, PxSibling, PxHome}

\* entries (host path, share name) of a shared-folder table
EntUsers == <<<<"C",":","\\","U","s","e","r","s">>, <<"c","_","u","s","e","r","s">>>>
EntUsersA == <<<<"C",":","\\","U","s","e","r","s","\\","a">>, <<"a","_","s","h","a","r","e">>>>
EntPxUsers == <<<<"/","U","s","e","r","s">>, <<"u","s","e","r","s">>>>
EntPxUsersA == <<<<"/","U","s","e","r","s","/","a">>, <<"u","a">>>>
EntUnc == <<<<"\\","\\","s","r","v","\\","x">>, <<"n","e","t">>>>
SampleEntries == {EntUsers, EntUsersA, EntPxUsers, EntPxUsersA, EntUnc}

\* longest shared-folder table tried
MaxMapLen == 2

\* the tables: every order of up to MaxMapLen entries
SampleMaps ==
    UNION {[1..n -> SampleEntries] : n \in 0..MaxMapLen}

\* the separators os.path knows on the platform
Seps(plat) == IF plat = "win32" THEN {"\\", "/"} ELSE {"/"}

\* os.sep
Sep(plat) == IF plat = "win32" THEN "\\" ELSE "/"

\* s.find(c, from) on positions counted from 1: 0 when not found
RECURSIVE FindFrom(_, _, _)
FindFrom(s, cs, from) ==
    IF from > Len(s) THEN 0
    ELSE IF s[from] \in cs THEN from
    ELSE FindFrom(s, cs, from + 1)

\* length of the drive part os.path.splitdrive finds: none on posix; on
\* win32 a drive letter with its colon, or the \\host\share of a UNC path
DriveLen(p, plat) ==
    IF plat # "win32" THEN 0
    ELSE IF Len(p) >= 2 /\ p[1] \in Seps(plat) /\ p[2] \in Seps(plat)
            /\ ~(Len(p) >= 3 /\ p[3] \in Seps(plat))
    THEN LET i1 == FindFrom(p, Seps(plat), 3)
         IN  IF i1 = 0 THEN 0
             ELSE LET i2 == FindFrom(p, Seps(plat), i1 + 1)
                  IN  IF i2 = i1 + 1 THEN 0
                      ELSE IF i2 = 0 THEN Len(p)
                      ELSE i2 - 1
    ELSE IF Len(p) >= 2 /\ p[2] = ":" THEN 2
    ELSE 0

\* os.path.join(p, ''): p with a separator at its end, unless what follows
\* the drive is empty or ends with one
JoinEmpty(p, plat) ==
    IF Len(p) = DriveLen(p, plat) THEN p
    ELSE IF p[Len(p)] \in Seps(plat) THEN p
    ELSE Append(p, Sep(plat))

\* the comparison form of a path: lower case on win32
Fold(p, plat) == IF plat = "win32" THEN Lower(p) ELSE p

\* line 281: the entry's host path is a prefix of the path
Matches(path, m, plat) ==
    StartsWith(Fold(JoinEmpty(path, plat), plat), Fold(JoinEmpty(m, plat), plat))

\* line 283: share + '/' + path[len(m):]
ShareJoinMutant(path, m, share) == share \o SubSeq(path, Len(m) + 1, Len(path))

ShareJoin(path, m, share) ==
    share \o <<"/">> \o SubSeq(path, Len(m) + 1, Len(path))

\* index of the entry the loop over reversed(self.folder_map) returns at:
\* the last one of the table that matches; 0 when none does
RECURSIVE UsedEntryFrom(_, _, _, _)
UsedEntryFrom(path, fmap, plat, i) ==
    IF i = 0 THEN 0
    ELSE IF Matches(path, fmap[i][1], plat) THEN i
    ELSE UsedEntryFrom(path, fmap, plat, i - 1)

UsedEntry(path, fmap, plat) == UsedEntryFrom(path, fmap, plat, Len(fmap))

\* DockerEnv.convert_path_vbox_share
ConvertPathVboxShare(path, fmap, plat) ==
    LET i == UsedEntry(path, fmap, plat)
    IN  IF i = 0 THEN NonePath
        ELSE ShareJoin(path, fmap[i][1], fmap[i][2])

\* s.replace(c, t) for a character c
RECURSIVE ReplaceChar(_, _, _)
ReplaceChar(s, c, t) ==
    IF s = <<>> THEN <<>>
    ELSE (IF Head(s) = c THEN t ELSE <<Head(s)>>) \o ReplaceChar(Tail(s), c, t)

\* s.replace('//', '/'): one pass from the left over non-overlapping pairs
RECURSIVE CollapsePairs(_)
CollapsePairs(s) ==
    IF Len(s) < 2 THEN s
    ELSE IF s[1] = "/" /\ s[2] = "/"
    THEN <<"/">> \o CollapsePairs(SubSeq(s, 3, Len(s)))
    ELSE <<s[1]>> \o CollapsePairs(Tail(s))

NtToPosixMutant(path) ==
    <<"/">> \o ReplaceChar(ReplaceChar(path, "\\", <<"/">>), ":", <<":">>)

\* DockerEnv.convert_path_nt_to_posix
NtToPosix(path) ==
    <<"/">> \o
    CollapsePairs(ReplaceChar(ReplaceChar(path, "\\", <<"/">>), ":", <<>>))

\* DockerEnv.volume_path(path) of an object with the given is_toolbox and
\* folder_map; yes: the answer to the prompt has a 'y' in it.  raised: it
\* ended in the NameError of toolbox_conf_share_win
VolumePathFn(path, tb, fmap, plat, yes) ==
    LET conv == ConvertPathVboxShare(path, fmap, plat)
    IN  IF tb = "True" /\ conv = NonePath /\ plat = "win32"
        THEN [raised |-> yes, value |-> NonePath]
        ELSE LET cwd == IF tb = "True" THEN conv ELSE path
             IN  [raised |-> FALSE,
                  value |-> IF plat = "win32" THEN NtToPosix(cwd) ELSE cwd]

\* volume_path applied to a working directory
ApplyTranslate ==
    /\ fnOp = "none"
    /\ \E path \in SamplePaths, fmap \in SampleMaps, plat \in Platforms,
          tb \in {"True", "False"}, yes \in BOOLEAN :
         /\ fnIn' = [path |-> path, fmap |-> fmap, plat |-> plat, tb |-> tb,
                     yes |-> yes]
         /\ fnOut' = [conv |-> ConvertPathVboxShare(path, fmap, plat)] @@
                     VolumePathFn(path, tb, fmap, plat, yes)
    /\ fnOp' = "translate"
    /\ UNCHANGED lifeVars

\* volume_path applied twice to one working directory by one object, the
\* prompt, where there is one, answered each time; the object's is_toolbox
\* and folder_map after the two calls (line 340, the one assignment, comes
\* after the call of line 338 that raises)
ApplyTranslateTwice ==
    /\ fnOp = "none"
    /\ \E path \in SamplePaths, fmap \in SampleMaps, plat \in Platforms,
          tb \in {"True", "False"}, yes1 \in BOOLEAN, yes2 \in BOOLEAN :
         /\ fnIn' = [path |-> path, fmap |-> fmap, plat |-> plat, tb |-> tb]
         /\ fnOut' = [first |-> VolumePathFn(path, tb, fmap, plat, yes1),
                      second |-> VolumePathFn(path, tb, fmap, plat, yes2),
                      tb |-> tb, fmap |-> fmap]
    /\ fnOp' = "translate_twice"
    /\ UNCHANGED lifeVars

\* longest path, other than the working directories above, rewritten
MaxPathLen == 5

\* the characters such a path is made of
PathChars == {"C", "a", ":", "\\", "/"}

\* every path of up to MaxPathLen characters
ShortPaths ==
    UNION {[1..n -> PathChars] : n \in 0..MaxPathLen}

\* convert_path_nt_to_posix applied to a path
ApplyNtToPosix ==
    /\ fnOp = "none"
    /\ \E path \in ShortPaths \cup SamplePaths :
         /\ fnIn' = path
         /\ fnOut' = NtToPosix(path)
    /\ fnOp' = "posix"
    /\ UNCHANGED lifeVars

\* ------------------------------------------- the commands of run_waiwera

REPO == "waiwera/waiwera"

TAG == "latest"

WAIWERA_PATH == "/opt/waiwera/build/waiwera"

\* line 383
data_path == "/data"

\* values of --image: not given, given empty, given
Images == {"None", "", "my/image:1"}

Repos == {REPO, "other/repo"}

Tags == {TAG, "v1"}

\* values of --num_processors: not given, given empty, given
NumProcessors == {"None", "", "2"}

\* the arguments after the options
WaiweraArgs == {<<>>, <<"model.json">>, <<"model.json", "">>}

\* what volume_path returned, as '{}'.format prints it
CurrentPaths == {"/c_users/a/project", "None"}

\* a value that is true in a condition
Truthy(v) == v # "None" /\ v # ""

NonEmpty(c) == c # ""

ImageArgMutant(image, repo, tag) == <<repo \o ":" \o tag>>

\* lines 385-388
ImageArg(image, repo, tag) ==
    IF image = "None" THEN <<repo \o ":" \o tag>> ELSE <<image>>

\* lines 390-393
NpArg(num_processors) ==
    IF Truthy(num_processors) THEN <<"-np", num_processors>> ELSE <<"">>

\* lines 395-402: it, work_dir and mpiexec
ItArg(interactive) ==
    IF interactive THEN <<"--interactive", "--tty">> ELSE <<"">>

WorkDirArg(interactive) ==
    IF interactive THEN <<"">> ELSE <<"--workdir", data_path>>

MpiexecArg(interactive, num_processors) ==
    IF interactive THEN <<"/bin/bash">>
    ELSE <<"mpiexec">> \o NpArg(num_processors) \o <<WAIWERA_PATH>>

\* line 406; <<>> when no pull is made
PullCmd(image, repo, tag, no_update) ==
    IF no_update THEN <<>>
    ELSE <<"docker", "pull">> \o ImageArg(image, repo, tag)

\* lines 415-421
RunCmd(cur, image, repo, tag, num_processors, interactive, args) ==
    SelectSeq(<<"docker", "run", "--cidfile", ".cid", "--rm", "--volume",
                cur \o ":" \o data_path>>
              \o ItArg(interactive) \o WorkDirArg(interactive)
              \o ImageArg(image, repo, tag)
              \o MpiexecArg(interactive, num_processors) \o args,
              NonEmpty)

\* the commands run_waiwera makes of its arguments
ApplyCommands ==
    /\ fnOp = "none"
    /\ \E cur \in CurrentPaths, image \in Images, repo \in Repos,
          tag \in Tags, num \in NumProcessors, interactive \in BOOLEAN,
          no_update \in BOOLEAN, args \in WaiweraArgs :
         /\ fnIn' = [current_path |-> cur, image |-> image, repo |-> repo,
                     tag |-> tag, num_processors |-> num,
                     interactive |-> interactive, noupdate |-> no_update,
                     waiwera_args |-> args]
         /\ fnOut' = [pull |-> PullCmd(image, repo, tag, no_update),
                      run |-> RunCmd(cur, image, repo, tag, num, interactive,
                                     args)]
    /\ fnOp' = "commands"
    /\ UNCHANGED lifeVars

\* ------------------------------------- get_vbox_share.parse_vminfo

\* a line of `vboxmanage showvminfo`, by what parse_vminfo tests of it:
\* header      starts with 'Shared folders:', without '<none>'
\* header_none starts with 'Shared folders:', with '<none>'
\* blank       empty once stripped
\* entry       the pattern finds name and host in it
\* other       any other line: the pattern finds nothing
VmLine(kind, host, name) == [kind |-> kind, host |-> host, name |-> name]

HeaderLine == VmLine("header", "", "")

HeaderNoneLine == VmLine("header_none", "", "")

BlankLine == VmLine("blank", "", "")

OtherLine == VmLine("other", "", "")

EntryLineA == VmLine("entry", "C:\\Users", "c/Users")

EntryLineB == VmLine("entry", "D:\\", "D")

VmLines ==
    {HeaderLine, HeaderNoneLine, BlankLine, OtherLine, EntryLineA, EntryLineB}

\* longest text parsed, in lines
MaxLines == 5

VmInfos ==
    UNION {[1..n -> VmLines] : n \in 0..MaxLines}

EntryPairMutant(line) == <<line.name, line.host>>

\* line 258: the pair appended for an entry line
EntryPair(line) == <<line.host, line.name>>

StillFoundMutant(found, empty) == found

\* lines 262-263: if empty == 2: found = False
StillFound(found, empty) == found /\ empty # 2

\* the loop of lines 247-263 from line i on, with the values of maps, found
\* and empty so far; raised: ms is None at line 257 (AttributeError)
RECURSIVE ParseFrom(_, _, _, _, _)
ParseFrom(lines, i, maps, found, empty) ==
    IF i > Len(lines) THEN [maps |-> maps, raised |-> FALSE]
    ELSE LET line == lines[i]
         IN  IF line.kind = "header_none"
             THEN [maps |-> maps, raised |-> FALSE]
             ELSE IF line.kind = "header"
             THEN ParseFrom(lines, i + 1, maps, TRUE, empty)
             ELSE IF ~found
             THEN ParseFrom(lines, i + 1, maps, found, empty)
             ELSE IF line.kind = "blank"
             THEN ParseFrom(lines, i + 1, maps,
                            StillFound(found, empty + 1), empty + 1)
             ELSE IF line.kind = "entry"
             THEN ParseFrom(lines, i + 1, Append(maps, EntryPair(line)),
                            StillFound(found, empty), empty)
             ELSE [maps |-> maps, raised |-> TRUE]

\* parse_vminfo(vminfo)
ParseVminfo(lines) == ParseFrom(lines, 1, <<>>, FALSE, 0)

\* parse_vminfo applied to a text
ApplyParse ==
    /\ fnOp = "none"
    /\ \E lines \in VmInfos :
         /\ fnIn' = lines
         /\ fnOut' = ParseVminfo(lines)
    /\ fnOp' = "parse"
    /\ UNCHANGED lifeVars

\* ------------------------------------------------- DockerEnv.toolbox_vm

\* self.info: None, a dict with 'Name', a dict without
InfoStates == {"None", "named", "unnamed"}

\* info['Name']
InfoName == "vm-info"

\* DOCKER_MACHINE_NAME: not in the environment ("None"), empty, set
MachineNames == {"None", "", "vm-env"}

\* out of `docker-machine active`
ActiveName == "vm-active"

DefaultVm == "default"

\* lines 290-299: the elif belongs to `if self.info is not None`
ToolboxVm(inf, env_name, active_ok) ==
    IF inf # "None"
    THEN IF inf = "named" THEN InfoName ELSE DefaultVm
    ELSE IF env_name # "None"
    THEN IF env_name # "" THEN env_name ELSE DefaultVm
    ELSE IF active_ok THEN ActiveName ELSE DefaultVm

\* toolbox_vm applied to an object and an environment
ApplyToolboxVm ==
    /\ fnOp = "none"
    /\ \E inf \in InfoStates, env_name \in MachineNames, active_ok \in BOOLEAN :
         /\ fnIn' = [info |-> inf, env_name |-> env_name,
                     active_ok |-> active_ok]
         /\ fnOut' = ToolboxVm(inf, env_name, active_ok)
    /\ fnOp' = "toolbox_vm"
    /\ UNCHANGED lifeVars

\* check_running applied to an answer (ok, kind) by an object whose
\* is_toolbox is tb
ApplyProbe ==
    /\ fnOp = "none"
    /\ \E ok \in BOOLEAN, kind \in ProbeKinds, tb \in {"None", "True", "False"} :
         /\ fnIn' = [ok |-> ok, kind |-> kind, tb |-> tb]
         /\ fnOut' = ProbeResult(ok, kind, tb)
    /\ fnOp' = "probe"
    /\ UNCHANGED lifeVars

\* check_running applied to one answer (ok, kind) by two objects that differ
\* in the is_toolbox an earlier probe, or the constructor, left them
ApplyProbeTwice ==
    /\ fnOp = "none"
    /\ \E ok \in BOOLEAN, kind \in ProbeKinds,
          tb1 \in {"None", "True", "False"}, tb2 \in {"None", "True", "False"} :
         /\ fnIn' = [ok |-> ok, kind |-> kind, tb1 |-> tb1, tb2 |-> tb2]
         /\ fnOut' = [first |-> ProbeResult(ok, kind, tb1),
                      second |-> ProbeResult(ok, kind, tb2)]
    /\ fnOp' = "probe_twice"
    /\ UNCHANGED lifeVars

FnNext ==
    \/ ApplyProbe
    \/ ApplyProbeTwice
    \/ ApplyTranslate
    \/ ApplyTranslateTwice
    \/ ApplyNtToPosix
    \/ ApplyCommands
    \/ ApplyParse
    \/ ApplyToolboxVm

FnSpec == FnInit /\ [][FnNext]_vars

\* -------------------------------------------------------------- claims

\* the process ended inside signal_handler
EndedByInterrupt == exitCause \in {"interrupt_no_marker", "interrupt_killed"}

\* the process ended inside run_waiwera or right after it, not by a signal
EndedInRun ==
    exitCause \in {"path_error", "pull_spawn_error", "spawn_error",
                   "cid_unreadable", "normal"}

\* C1: once run_waiwera has returned or raised, neither .idcheck nor .cid
\* exists.
C1_NoMarkerAfterRun == EndedInRun => (~idcheck /\ cidFile = NoFile)

\* C2: an interrupt delivered after the container process was spawned and
\* before it ended issues a kill against that container: the wrapper never
\* ends on an interrupt while the container it spawned runs on un-killed.
C2_InterruptKillsContainer ==
    (EndedByInterrupt /\ container = "running")
        => \E i \in 1..Len(kills) : kills[i] = Prefix(conId, CID_LEN)

\* C3: whenever the wrapper is blocked in the wait on the container process,
\* the .cid marker exists.
C3_MarkerBeforeWait == (~exited /\ pc = "wait_run") => cidFile # NoFile

\* C4: an interrupt received while .cid holds identifier X issues exactly
\* one kill, aimed at the first CID_LEN characters of X, removes the marker
\* and ends the wrapper with status 1; however many interrupts arrive, at
\* most one kill is issued for the marker.
C4_ExactlyOneKill ==
    exitCause = "interrupt_killed"
        => /\ Len(kills) = 1
           /\ kills[1] = Prefix(conId, CID_LEN)
           /\ cidFile = NoFile
           /\ exitStatus = FailStatus

\* C5: a handler invocation that finds no .cid ends the wrapper at once
\* (status 1) and issues no kill.
C5_NoMarkerNoKill ==
    [][(hpc = "check" /\ cidFile = NoFile /\ hpc' # "check")
         => (exited' /\ exitStatus' = FailStatus /\ kills' = kills)]_vars

\* C5 witness: an interrupt after the cleanup of a finished run ended the
\* wrapper without any kill.
C5_Witness ==
    /\ exitCause = "interrupt_no_marker"
    /\ container = "exited"
    /\ ~idcheck
    /\ kills = <<>>

\* C6: when the wrapper has ended because of an interrupt, neither .idcheck
\* nor .cid exists.
C6_NoMarkerAfterInterrupt == EndedByInterrupt => (~idcheck /\ cidFile = NoFile)

\* C7: on normal completion the wrapper's exit status is the exit code of
\* the containerized process.
C7_ExitCodeMirrors == exitCause = "normal" => exitStatus = conExit

\* C8: the repair reaches Failed only if the runtime is still not running
\* after the VM repair step.
C8_FailedOnlyIfDown == (exitCause = "repair_failed" /\ vmRepaired) => ~runtimeUp

\* C9: a failed repair ends the wrapper with status 1 with no pull and no
\* container run issued; a container is spawned only when the latest probe
\* reported running.
C9_FailedRepairIsFatal ==
    /\ exitCause = "repair_failed"
         => (exitStatus = FailStatus /\ pulls = 0 /\ container = "none")
    /\ (pulls > 0 \/ container # "none")
         => (probeLog # <<>> /\ probeLog[Len(probeLog)] = "True")

\* C9 witness: the repair ended Failed with the runtime still not running.
C9_Witness ==
    /\ exitCause = "repair_failed"
    /\ ~runtimeUp
    /\ Len(probeLog) = 2

\* C10: when the version query fails, no status query is issued and the
\* Toolbox repair is not entered.
C10_UnreachableStopsProbe ==
    exists = "False" => (statusQueries = 0 /\ ~repairEntered)

\* documents whose OperatingSystem carries the Boot2Docker name, in some
\* letter case, and that have no ServerErrors field
SignedKinds == {"json_b2d", "json_B2D"}

\* C11: for every status output that does not parse, the probe completes
\* with mode Toolbox and running equal to the query's success flag, whether
\* that flag is false or true.
C11_NonJsonIsToolbox ==
    (fnOp = "probe" /\ fnIn.kind = "nonjson")
        => /\ ~fnOut.raised
           /\ fnOut.is_toolbox = "True"
           /\ fnOut.running = Bool(fnIn.ok)

MatchingEntries(path, fmap, plat) ==
    {i \in DOMAIN fmap : Matches(path, fmap[i][1], plat)}

\* a Toolbox-mode translation in which some entry matched
ToolboxMatch ==
    /\ fnOp = "translate"
    /\ fnIn.tb = "True"
    /\ MatchingEntries(fnIn.path, fnIn.fmap, fnIn.plat) # {}

\* C13: in Toolbox mode, whatever the order of the table, the translation is
\* made with an entry whose host path is the longest of those that are a
\* path-prefix of the path, never with a shorter matching one.
C13_LongestPrefixWins ==
    ToolboxMatch =>
        LET ms == MatchingEntries(fnIn.path, fnIn.fmap, fnIn.plat)
        IN  \E i \in ms :
              /\ \A j \in ms : Len(fnIn.fmap[j][1]) <= Len(fnIn.fmap[i][1])
              /\ fnOut.conv = fnIn.fmap[i][2] \o <<"/">> \o
                     SubSeq(fnIn.path, Len(fnIn.fmap[i][1]) + 1, Len(fnIn.path))

\* the translation of C:\Users\a\project under [(C:\Users, c_users)] on
\* Windows in Toolbox mode
UsersExample ==
    /\ fnOp = "translate"
    /\ fnIn.tb = "True"
    /\ fnIn.plat = "win32"
    /\ fnIn.fmap = <<EntUsers>>
    /\ fnIn.path = WinProject

\* C14 as stated: the example translates to exactly c_users/a/project.
C14_Original ==
    UsersExample => fnOut.value = <<"c","_","u","s","e","r","s","/","a","/","p","r","o","j","e","c","t">>

\* C14 amended: when an entry matches, convert_path_vbox_share returns the
\* share name, a '/' and the remainder of the path after the host path of a
\* matching entry; the translation is that string off Windows, and on
\* Windows its POSIX rewrite, which starts with '/' and the share name and
\* has no backslash; the example translates to exactly /c_users/a/project.
C14_ShareThenRemainder ==
    /\ ToolboxMatch =>
         /\ ~fnOut.raised
         /\ \E i \in MatchingEntries(fnIn.path, fnIn.fmap, fnIn.plat) :
              LET host == fnIn.fmap[i][1]
                  share == fnIn.fmap[i][2]
                  rest == SubSeq(fnIn.path, Len(host) + 1, Len(fnIn.path))
              IN  /\ fnOut.conv = share \o <<"/">> \o rest
                  /\ fnIn.plat # "win32" => fnOut.value = fnOut.conv
                  /\ fnIn.plat = "win32" =>
                       /\ StartsWith(fnOut.value, <<"/">> \o share)
                       /\ \A k \in DOMAIN fnOut.value : fnOut.value[k] # "\\"
    /\ UsersExample =>
         /\ fnOut.conv = <<"c","_","u","s","e","r","s","/","\\","a","\\","p","r","o","j","e","c","t">>
         /\ fnOut.value = <<"/","c","_","u","s","e","r","s","/","a","/","p","r","o","j","e","c","t">>

\* C14 witness: the example was translated.
C14_Witness ==
    UsersExample /\ fnOut.value[1] = "/"

\* a separator of a Windows path
IsSep(c) == c \in {"\\", "/"}

IsColon(c) == c = ":"

NotColon(c) == ~IsColon(c)

\* s has two '/' in a row
DoubleSlash(s) ==
    \E k \in 1..(Len(s) - 1) : s[k] = "/" /\ s[k + 1] = "/"

\* result form common to both statements of C15, the doubled slash apart
PosixShape(s) ==
    /\ Len(s) >= 1
    /\ s[1] = "/"
    /\ \A k \in DOMAIN s : s[k] # "\\" /\ s[k] # ":"

\* C15 as stated: C:\data\run is rewritten to /c/data/run, and every result
\* starts with '/', has no backslash, no colon and no doubled slash.
C15_Original ==
    fnOp = "posix" =>
        /\ fnIn = WinData => fnOut = <<"/","c","/","d","a","t","a","/","r","u","n">>
        /\ PosixShape(fnOut)
        /\ ~DoubleSlash(fnOut)

\* the path, its colons dropped, neither starts with a separator nor has
\* three separators in a row
PlainSeparators(path) ==
    LET p == SelectSeq(path, NotColon)
    IN  /\ p # <<>> => ~IsSep(p[1])
        /\ \A k \in 1..(Len(p) - 2) :
             ~(IsSep(p[k]) /\ IsSep(p[k + 1]) /\ IsSep(p[k + 2]))

\* C15 amended: C:\data\run is rewritten to /C/data/run, the drive letter
\* kept as it is; every result starts with '/' and has no backslash and no
\* colon; it has no doubled slash when the path, colons dropped, does not
\* start with a separator and has no three separators in a row.
C15_RewriteShape ==
    fnOp = "posix" =>
        /\ fnIn = WinData => fnOut = <<"/","C","/","d","a","t","a","/","r","u","n">>
        /\ PosixShape(fnOut)
        /\ PlainSeparators(fnIn) => ~DoubleSlash(fnOut)

\* C15 witness: C:\data\run was rewritten.
C15_Witness ==
    fnOp = "posix" /\ fnIn = WinData /\ fnOut[2] = "C"

\* C16: two translations of the same path by the same object (environment
\* state and shared-folder table) end the same way with the same result,
\* and leave the state and the table as they were.
C16_TranslationDeterministic ==
    fnOp = "translate_twice" =>
        /\ fnOut.first = fnOut.second
        /\ fnOut.tb = fnIn.tb
        /\ fnOut.fmap = fnIn.fmap

\* place of the image reference in the run command: after the seven fixed
\* words and the two of the terminal or working-directory options
ImagePlace == 10

\* C18: a given image name is the image reference whatever repo and tag
\* are; without one the reference is repo:tag, waiwera/waiwera:latest for
\* the defaults; the pull, when made, names the reference the run names.
C18_ImageResolution ==
    (fnOp = "commands" /\ fnIn.image # "") =>
        /\ fnIn.image # "None" => fnOut.run[ImagePlace] = fnIn.image
        /\ fnIn.image = "None" =>
             fnOut.run[ImagePlace] = fnIn.repo \o ":" \o fnIn.tag
        /\ (fnIn.image = "None" /\ fnIn.repo = "waiwera/waiwera"
                /\ fnIn.tag = "latest") =>
             fnOut.run[ImagePlace] = "waiwera/waiwera:latest"
        /\ ~fnIn.noupdate =>
             fnOut.pull = <<"docker", "pull", fnOut.run[ImagePlace]>>

\* C18 witness: a run with an image given and another repo and tag, pulled.
C18_Witness ==
    /\ fnOp = "commands"
    /\ fnIn.image = "my/image:1"
    /\ fnIn.repo = "other/repo"
    /\ fnIn.tag = "v1"
    /\ ~fnIn.noupdate
    /\ fnOut.pull[3] = "my/image:1"

\* C17: when the translation of the working directory is unresolved (None),
\* the run is given up: no start marker is written and no container run is
\* started with the unresolved mount source.
C17_UnresolvedAbortsRun ==
    current_path = "None" => (~idcheck /\ container = "none")

\* C19: with --noupdate no pull is made; with the update on, the step that
\* ends the wait for the pull goes on to the writing of the start marker
\* with the script still running, whatever status the pull ended with.
C19_PullBestEffort ==
    /\ [](noupdate => pulls = 0)
    /\ [][(MainAt("pull_wait") /\ pc' # "pull_wait")
            => (pc' = "mk_idcheck" /\ ~exited')]_vars

\* C19 witness: the pull ended with a non-zero status, and the start marker
\* is written and the container run started.
C19_Witness ==
    /\ pc = "wait_run"
    /\ pulls = 1
    /\ ret # 0
    /\ idcheck
    /\ container = "spawned"

IsHeaderKind(line) == line.kind \in {"header", "header_none"}

IsEntry(line) == line.kind = "entry"

\* place of the first header line; 0 without one
FirstHeader(lines) ==
    IF \E k \in DOMAIN lines : IsHeaderKind(lines[k])
    THEN CHOOSE k \in DOMAIN lines :
           /\ IsHeaderKind(lines[k])
           /\ \A j \in 1..(k - 1) : ~IsHeaderKind(lines[j])
    ELSE 0

\* the lines after the first header
Section(lines) == SubSeq(lines, FirstHeader(lines) + 1, Len(lines))

\* a text with one header, 'Shared folders:', followed by entry lines and
\* blank lines only
PlainSection(lines) ==
    /\ FirstHeader(lines) # 0
    /\ lines[FirstHeader(lines)].kind = "header"
    /\ \A k \in DOMAIN Section(lines) :
         Section(lines)[k].kind \in {"entry", "blank"}

\* the pairs (host path, name) of the entry lines among the first n lines
EntriesOf(sec, n) ==
    LET es == SelectSeq(SubSeq(sec, 1, n), IsEntry)
    IN  [k \in DOMAIN es |-> <<es[k].host, es[k].name>>]

\* number of lines before the first two blank lines in a row; all of them
\* without such a pair
BeforeBlankPair(sec) ==
    LET ps == {k \in 1..(Len(sec) - 1) :
                 sec[k].kind = "blank" /\ sec[k + 1].kind = "blank"}
    IN  IF ps = {} THEN Len(sec)
        ELSE (CHOOSE k \in ps : \A j \in ps : k <= j) - 1

\* number of lines before the second blank line; all of them with fewer
\* than two blank lines
BeforeSecondBlank(sec) ==
    LET bs == {k \in DOMAIN sec : sec[k].kind = "blank"}
        ss == {k \in bs : Cardinality({j \in bs : j < k}) = 1}
    IN  IF ss = {} THEN Len(sec)
        ELSE (CHOOSE k \in ss : TRUE) - 1

\* C20 as stated: after the header every entry line up to two blank lines
\* in a row is appended as (host path, name); blank lines parted by an
\* entry do not end the section.
C20_Original ==
    (fnOp = "parse" /\ PlainSection(fnIn)) =>
        /\ ~fnOut.raised
        /\ fnOut.maps = EntriesOf(Section(fnIn), BeforeBlankPair(Section(fnIn)))

\* C20 amended: after the header every entry line up to the second blank
\* line is appended as (host path, name), the two blank lines in a row or
\* not; entry lines after the second blank line are not appended.
C20_SecondBlankEndsSection ==
    (fnOp = "parse" /\ PlainSection(fnIn)) =>
        /\ ~fnOut.raised
        /\ fnOut.maps = EntriesOf(Section(fnIn), BeforeSecondBlank(Section(fnIn)))

\* C20 witness: header, blank, entry, blank, entry: the first entry alone
\* is in the mapping.
C20_Witness ==
    /\ fnOp = "parse"
    /\ fnIn = <<HeaderLine, BlankLine, EntryLineA, BlankLine, EntryLineB>>
    /\ fnOut.maps = <<<<"C:\\Users", "c/Users">>>>

\* a text whose first header line is 'Shared folders:', followed by one
\* entry line and two blank lines, and nothing after
OneEntrySection(lines) ==
    /\ PlainSection(lines)
    /\ Len(Section(lines)) = 3
    /\ Section(lines)[1].kind = "entry"
    /\ Section(lines)[2].kind = "blank"
    /\ Section(lines)[3].kind = "blank"

\* a text whose first header line carries '<none>'
NoneSection(lines) ==
    /\ FirstHeader(lines) # 0
    /\ lines[FirstHeader(lines)].kind = "header_none"

\* C21: a header, one entry line and two blank lines give a mapping of that
\* one entry; a header with the none marker, and a text without any header,
\* give the empty mapping and no error.
C21_ResolveShapes ==
    fnOp = "parse" =>
        /\ OneEntrySection(fnIn) =>
             /\ ~fnOut.raised
             /\ fnOut.maps = <<<<Section(fnIn)[1].host, Section(fnIn)[1].name>>>>
        /\ NoneSection(fnIn) => (~fnOut.raised /\ fnOut.maps = <<>>)
        /\ FirstHeader(fnIn) = 0 => (~fnOut.raised /\ fnOut.maps = <<>>)

\* C21 witness: header, entry, blank, blank was parsed.
C21_Witness ==
    /\ fnOp = "parse"
    /\ fnIn = <<HeaderLine, EntryLineA, BlankLine, BlankLine>>
    /\ Len(fnOut.maps) = 1

\* word w is in command cmd
InCmd(cmd, w) == \E k \in DOMAIN cmd : cmd[k] = w

\* the words of cmd from place n on
CmdFrom(cmd, n) == SubSeq(cmd, n, Len(cmd))

\* the launcher words of a batch run: mpiexec, '-np N' exactly when a count
\* is given, the simulator path
Launcher(num_processors) ==
    IF Truthy(num_processors)
    THEN <<"mpiexec", "-np", num_processors, WAIWERA_PATH>>
    ELSE <<"mpiexec", WAIWERA_PATH>>

\* C22: an interactive run has no working-directory flag and no mpiexec; a
\* batch run has '--workdir /data', then the image, then mpiexec with
\* '-np N' exactly when a count is given, the simulator path and the
\* arguments of the user, unchanged and in their order; both mount
\* translated-source:/data and name the image before the command.
C22_InvocationAssembly ==
    (fnOp = "commands" /\ fnIn.image # "") =>
        /\ fnOut.run[6] = "--volume"
        /\ fnOut.run[7] = fnIn.current_path \o ":/data"
        /\ fnOut.run[ImagePlace] = ImageArg(fnIn.image, fnIn.repo, fnIn.tag)[1]
        /\ fnIn.interactive =>
             /\ ~InCmd(fnOut.run, "--workdir")
             /\ ~InCmd(fnOut.run, "mpiexec")
             /\ fnOut.run[ImagePlace + 1] = "/bin/bash"
        /\ ~fnIn.interactive =>
             /\ fnOut.run[8] = "--workdir"
             /\ fnOut.run[9] = "/data"
             /\ CmdFrom(fnOut.run, ImagePlace + 1) =
                    Launcher(fnIn.num_processors) \o fnIn.waiwera_args

\* C23: the VM name is the name field of the info when there is one; else
\* DOCKER_MACHINE_NAME when set and not empty; else the answer of the
\* active-machine query when it succeeds; else 'default'.
C23_FallbackChain ==
    fnOp = "toolbox_vm" =>
        fnOut = IF fnIn.info = "named" THEN "vm-info"
                ELSE IF fnIn.env_name \notin {"None", ""} THEN fnIn.env_name
                ELSE IF fnIn.active_ok THEN "vm-active"
                ELSE "default"

\* C24: a probe leaves a state that depends on its query results alone:
\* from any two earlier states the same results give the same running, info
\* and mode, nothing being carried over.
C24_ProbeStateIsFresh ==
    fnOp = "probe_twice" => fnOut.first = fnOut.second

\* how far __init__ has come: the statements of lines 85-98 and of
\* repair_win_toolbox in the order of the text; everything after them last
InitRank(p) ==
    CASE p = "check_exists" -> 0
      [] p = "init_probe" -> 1
      [] p = "init_update_env" -> 2
      [] p = "init_reprobe" -> 3
      [] p = "repair_find_vbox" -> 4
      [] p = "repair_vms" -> 5
      [] p = "repair_status" -> 6
      [] p = "repair_regen" -> 7
      [] p = "repair_final_status" -> 8
      [] p = "repair_update_env" -> 9
      [] p = "init_final_check" -> 10
      [] OTHER -> 11

\* the repair is over: the environment is ready, or the process has ended
RepairOver == exited \/ InitRank(pc) = 11

\* C25: the Toolbox repair is bounded and linear: update_env is called at
\* most twice, repair_win_toolbox at most once, the status query is made at
\* most twice, no step goes back to an earlier one, the environment is
\* taken as ready only when running, and a repair entered always ends,
\* ready or with the process ended.
C25_RepairBoundedLinear ==
    /\ [](envUpdates <= 2 /\ vmRepairs <= 1 /\ statusQueries <= 2)
    /\ []((pc = "init_folder_map" /\ ~exited) => running = "True")
    /\ []((exited /\ exitCause = "repair_failed") => exitStatus # 0)
    /\ [][InitRank(pc') >= InitRank(pc)]_vars
    /\ (repairEntered ~> RepairOver)

\* C25 witness: the whole sequence was gone through: two calls of
\* update_env, one of repair_win_toolbox, and the process ended as failed.
C25_Witness ==
    /\ envUpdates = 2
    /\ vmRepairs = 1
    /\ exited
    /\ exitCause = "repair_failed"

\* C26: within the run no blocking wait, for the pull or for the container,
\* is under way while the start marker .idcheck is absent.
C26_MarkerBeforeBlocking ==
    (~exited /\ pc \in {"pull_wait", "wait_run"}) => idcheck

\* C27: parse_vminfo returns a mapping for every text and never raises; a
\* line of the section that the pattern does not match is passed over.
C27_ParserTotal ==
    fnOp = "parse" => ~fnOut.raised

=============================================================================
